---- MODULE Spec2Model ----
(***************************************************************************)
(* The local record store of hoot (src/src/db.rs): the events table, the   *)
(* deletion markers, the trash entries and the gift-wrap breadcrumbs, with *)
(* the ingestion, deletion, trash and purge operations and the two thread  *)
(* queries that read them.                                                 *)
(***************************************************************************)
EXTENDS Integers, FiniteSets, Sequences, TLC

(* ----------------------------- bounds ---------------------------------- *)
NumMsgs == 4
NumWraps == 6
NumAuthors == 2
NumMetas == 6
NumKeys == 2
MaxRows == 3
MaxTime == 2
MaxBatch == 2

(* the most records pushed on Hoot::events *)
MaxEvents == 3

MaxElems == 4

MaxQueue == 2

NumContacts == 2

NumUrls == 2

MaxFetches == 2

ContactKeys == 1..NumContacts

Urls == 1..NumUrls

(* SQL NULL, and Rust's None for an Option *)
NULL == 0

(* the kind of a mail record *)
MAIL_EVENT_KIND == 2024

(* the kind of a profile (Metadata) record *)
METADATA_KIND == 0

MsgIds == 1..NumMsgs
WrapIds == (NumMsgs + 1)..(NumMsgs + NumWraps)
Authors == 1..NumAuthors
Times == 1..MaxTime

(* ------------------------- records on the wire ------------------------- *)
(* The fields of the n-th record of the catalog of records that can be     *)
(* delivered.  Record 1 is a root, 2 and 3 reply to 1, 4 and 5 reply to 2: *)
(* A = 1, B = 2, D = 3, C = 4 in the spec's thread example.  The "e" tags  *)
(* are the reply-references; created_at has ties (1 and 2, 3 and 4); the   *)
(* content is a text of its own for every record.                          *)
RawEventData(n) ==
    [ pubkey     |-> ((n - 1) % NumAuthors) + 1,
      created_at |-> (n + 1) \div 2,
      kind       |-> MAIL_EVENT_KIND,
      content    |-> n,
      subject    |-> (n % 3 # 0),
      etags      |-> IF n \div 2 = 0 THEN {} ELSE {n \div 2} ]

(* The content address of a record: the id is a function of the fields,    *)
(* and distinct fields have distinct ids.                                  *)
compute_id(raw) == CHOOSE n \in MsgIds : RawEventData(n) = raw

(* UnsignedEvent::ensure_id: the id is computed only when the rumor        *)
(* carries none; an id the rumor states is kept.                           *)
ensure_id(rumor) ==
    IF rumor.id = NULL THEN [rumor EXCEPT !.id = compute_id(rumor.raw)] ELSE rumor

(* The gift wraps that can be delivered.  Of every six, the first two are  *)
(* two envelopes of the same rumor; the third carries a rumor that states  *)
(* the id of another author's record; the fourth has a seal signed by      *)
(* somebody else than the rumor's author; the fifth is addressed to a key  *)
(* that is not loaded; the sixth carries a rumor that states the id of the *)
(* first envelope.                                                         *)
WrapIndex(w) == w - NumMsgs

WrapKind(w) == ((WrapIndex(w) - 1) % 6) + 1

RumorIndex(w) == ((WrapIndex(w) - 1) \div 6) + IF WrapKind(w) <= 2 THEN 1 ELSE 2

OtherAuthor(a) == (a % NumAuthors) + 1

(* AccountManager::loaded_keys, by public key *)
loaded_keys == { NumAuthors }

(* the "p" tag of the gift wrap *)
target_pubkey(w) == IF WrapKind(w) = 5 THEN OtherAuthor(NumAuthors) ELSE NumAuthors

(* UnwrappedGift::from_gift_wrap: the seal's signer and the decrypted rumor *)
UnwrappedGift(w) ==
    LET raw == RawEventData(RumorIndex(w))
    IN  [ sender |-> IF WrapKind(w) = 4 THEN OtherAuthor(raw.pubkey) ELSE raw.pubkey,
          rumor  |-> [ id  |-> IF WrapKind(w) = 3
                               THEN CHOOSE m \in MsgIds : RawEventData(m).pubkey # raw.pubkey
                               ELSE IF WrapKind(w) = 6 THEN NumMsgs + 1
                               ELSE NULL,
                       raw |-> raw ] ]

(* AccountManager::unwrap_gift_wrap: an error when no loaded key is the    *)
(* one of the "p" tag                                                      *)
(* any loaded key is tried *)
unwrap_gift_wrap_any_key(w) ==
    [ ok   |-> loaded_keys # {},
      key  |-> CHOOSE k \in loaded_keys : TRUE,
      gift |-> UnwrappedGift(w) ]

(* key is the loaded key handed to UnwrappedGift::from_gift_wrap           *)
unwrap_gift_wrap(w) ==
    [ ok   |-> target_pubkey(w) \in loaded_keys,
      key  |-> IF target_pubkey(w) \in loaded_keys THEN target_pubkey(w) ELSE NULL,
      gift |-> UnwrappedGift(w) ]

(* ------------------------------ state ---------------------------------- *)
VARIABLES
    events,          \* table events: id -> raw (the stored bytes)
    deleted_events,  \* table deleted_events: event_id -> author_pubkey or NULL
    trash_events,    \* table trash_events: event_id -> purge_after
    gift_wrap_map,   \* table gift_wrap_map: wrap_id -> inner_id
    profile_metadata,      \* table profile_metadata: pubkey -> the stored profile
    app_profile_metadata,  \* Hoot::profile_metadata: pubkey -> the profile shown
    account_manager,       \* AccountManager: [loaded_keys: the Vec<Keys>]
    keystore,              \* the keyring: public key (hex) -> secret bytes
    pubkeys,               \* table pubkeys: the rows, in rowid order
    cascade,               \* the statements of a running cascade still to run
    app_events,            \* Hoot::events: the ids of the records pushed, in order
    panicked,              \* the process was ended by a panic
    images,                \* ImageLoader::images: key -> the texture (the url it shows)
    pending,               \* ImageLoader::pending
    failed,                \* ImageLoader::failed
    channel,               \* the mpsc channel of ImageLoader: the messages sent
    fetches,               \* the fetch threads that run: [key, url]
    picture,               \* the picture url of each contact, NULL for none
    status,                \* Hoot::status
    page,                  \* Hoot::page
    unlocked,              \* the database was unlocked with its password
    table_entries,         \* Hoot::table_entries
    loaded,                \* what the Initalizing step got: [keys, listing]
    transport,             \* the messages the relays have delivered, not yet pulled
    pump,                  \* the position of the frame: [phase, item, pulls]
    last             \* the last call made on the store, and what it returned

vars == <<events, deleted_events, trash_events, gift_wrap_map,
          profile_metadata, app_profile_metadata,
          account_manager, keystore, pubkeys, cascade, app_events, panicked,
          images, pending, failed, channel, fetches, picture,
          status, page, unlocked, table_entries, loaded, transport, pump, last>>

accounts == <<account_manager, keystore, pubkeys>>

profiles == <<profile_metadata, app_profile_metadata>>

ingest == <<app_events, panicked>>

loader == <<images, pending, failed, channel, fetches, picture>>

shell == <<status, page, unlocked, table_entries, loaded, transport, pump>>

Db == [ events |-> events, deleted_events |-> deleted_events,
        trash_events |-> trash_events, gift_wrap_map |-> gift_wrap_map ]

Restrict(f, S) == [ x \in S |-> f[x] ]

InsertOrIgnore(f, k, v) == IF k \in DOMAIN f THEN f ELSE f @@ (k :> v)

InsertOrReplace(f, k, v) == [ x \in DOMAIN f \cup {k} |-> IF x = k THEN v ELSE f[x] ]

(* ----------------------------- queries --------------------------------- *)
has_event(db, id) == id \in DOMAIN db.events

is_deleted(db, id, author) ==
    /\ id \in DOMAIN db.deleted_events
    /\ \/ author = NULL
       \/ db.deleted_events[id] = NULL
       \/ db.deleted_events[id] = author

is_trashed(db, id) == id \in DOMAIN db.trash_events

get_wrap_ids_for_inner(db, inner) ==
    { w \in DOMAIN db.gift_wrap_map : db.gift_wrap_map[w] = inner }

(* The NOT EXISTS (SELECT 1 FROM deleted_events d WHERE d.event_id = e.id   *)
(* AND (d.author_pubkey IS NULL OR d.author_pubkey = e.pubkey)) of every   *)
(* listing query, for a stored row `id`.                                   *)
row_not_deleted(db, id) ==
    ~ ( /\ id \in DOMAIN db.deleted_events
        /\ \/ db.deleted_events[id] = NULL
           \/ db.deleted_events[id] = db.events[id].pubkey )

row_not_trashed(db, id) == id \notin DOMAIN db.trash_events

(* Db::get_top_level_messages, the CTE `roots` *)
roots(db) ==
    { e \in DOMAIN db.events :
        /\ db.events[e].subject
        /\ row_not_deleted(db, e)
        /\ row_not_trashed(db, e)
        /\ ~ \E t \in db.events[e].etags : t \in DOMAIN db.events }

(* Db::get_top_level_messages, the CTE `thread` of one root: replies,      *)
(* replies to replies, ... that are neither deleted nor trashed.           *)
RECURSIVE root_thread(_, _)
root_thread(db, S) ==
    LET T == S \cup { e \in DOMAIN db.events :
                        /\ \E m \in S : m \in db.events[e].etags
                        /\ row_not_deleted(db, e)
                        /\ row_not_trashed(db, e) }
    IN  IF T = S THEN S ELSE root_thread(db, T)

(* Db::get_top_level_messages: the ids of the rows of its query *)
get_top_level_messages(db) == roots(db)

(* the members of the thread of root r with the greatest created_at: the   *)
(* subquery ORDER BY e2.created_at DESC LIMIT 1 yields one of them         *)
latest_members_root_only(db, r) == {r}

latest_members(db, r) ==
    { m \in root_thread(db, {r}) :
        \A y \in root_thread(db, {r}) :
            db.events[y].created_at <= db.events[m].created_at }

(* the value of the first subject tag of a row, NULL without one; the      *)
(* subject text of a record is told apart as its content is                *)
subject_value(raw) == IF raw.subject THEN raw.content ELSE NULL

(* one row of the query: the root's id, the fields of the latest member    *)
(* le and the size of the thread                                           *)
TableEntry(db, r, le) ==
    [ id           |-> r,
      content      |-> db.events[le].content,
      created_at   |-> db.events[le].created_at,
      pubkey       |-> db.events[le].pubkey,
      subject      |-> subject_value(db.events[le]),
      thread_count |-> Cardinality(root_thread(db, {r})) ]

(* ORDER BY le.created_at DESC: every order of the rows that is descending *)
(* in created_at                                                           *)
RECURSIVE order_by_le_created_at(_)
order_by_le_created_at(R) ==
    IF R = {} THEN { <<>> }
    ELSE UNION { { <<m>> \o t : t \in order_by_le_created_at(R \ {m}) } :
                 m \in { x \in R : \A y \in R : y.created_at <= x.created_at } }

(* the rows of the query, for every choice of the latest member of a root  *)
top_level_rows(db) ==
    { { TableEntry(db, r, le[r]) : r \in roots(db) } :
        le \in { f \in [ roots(db) -> DOMAIN db.events ] :
                    \A r \in roots(db) : f[r] \in latest_members(db, r) } }

(* the mapping of the rows to TableEntry: subject is a String, and reading *)
(* a NULL column into a String is an error that collect() returns for the  *)
(* whole list                                                              *)
top_level_entries(db) ==
    UNION { IF \E row \in R : row.subject = NULL
            THEN { [ ok |-> FALSE, entries |-> <<>> ] }
            ELSE { [ ok |-> TRUE, entries |-> s ] : s \in order_by_le_created_at(R) } :
            R \in top_level_rows(db) }

(* Db::get_trash_messages: the ids of the rows it returns (events JOIN     *)
(* trash_events)                                                           *)
get_trash_messages(db) == DOMAIN db.events \cap DOMAIN db.trash_events

(* Db::get_email_thread_inner: the recursive CTE `thread`.  A row's raw    *)
(* holds its id, so the rows are told apart by id.                         *)
thread_row_ok(db, e, exclude_trash) ==
    /\ row_not_deleted(db, e)
    /\ exclude_trash => row_not_trashed(db, e)

thread_seed(db, id, exclude_trash) ==
    IF id \in DOMAIN db.events /\ thread_row_ok(db, id, exclude_trash) THEN {id} ELSE {}

thread_replies(db, S, exclude_trash) ==
    { e \in DOMAIN db.events :
        /\ \E m \in S : m \in db.events[e].etags
        /\ thread_row_ok(db, e, exclude_trash) }

thread_parents_none(db, S, exclude_trash) == {}

thread_parents(db, S, exclude_trash) ==
    { e \in DOMAIN db.events :
        /\ \E m \in S : e \in db.events[m].etags
        /\ thread_row_ok(db, e, exclude_trash) }

(* one hop: the replies and the parents of the seed only *)
thread_cte_one_hop(db, S, exclude_trash) ==
    S \cup thread_replies(db, S, exclude_trash) \cup thread_parents(db, S, exclude_trash)

RECURSIVE thread_cte(_, _, _)
thread_cte(db, S, exclude_trash) ==
    LET T == S \cup thread_replies(db, S, exclude_trash)
               \cup thread_parents(db, S, exclude_trash)
    IN  IF T = S THEN S ELSE thread_cte(db, T, exclude_trash)

(* skip and continue: the traversal passes through trashed rows and they  *)
(* are taken out of the result at the end                                  *)
thread_members_skip_and_continue(db, id, exclude_trash) ==
    { e \in thread_cte(db, thread_seed(db, id, FALSE), FALSE) :
        exclude_trash => row_not_trashed(db, e) }

thread_members(db, id, exclude_trash) ==
    thread_cte(db, thread_seed(db, id, exclude_trash), exclude_trash)

(* ORDER BY json_extract(raw, '$.created_at') ASC: every order of the rows *)
(* that is ascending in created_at; SQL leaves the order of ties open.     *)
RECURSIVE order_by_created_at(_, _)
order_by_created_at(db, S) ==
    IF S = {} THEN { <<>> }
    ELSE UNION { { <<m>> \o t : t \in order_by_created_at(db, S \ {m}) } :
                 m \in { x \in S : \A y \in S :
                           db.events[x].created_at <= db.events[y].created_at } }

get_email_thread_inner(db, id, exclude_trash) ==
    order_by_created_at(db, thread_members(db, id, exclude_trash))

(* ------------------------------ writes --------------------------------- *)
(* the seal signer is not compared with the rumor's author *)
store_event_unwrapped_no_signer_check(db, w, unwrapped) ==
    LET rumor == ensure_id(unwrapped.rumor)
    IN  IF is_deleted(db, rumor.id, rumor.raw.pubkey)
        THEN [ db |-> db, ok |-> TRUE ]
        ELSE [ db |-> [ db EXCEPT
                          !.events = InsertOrIgnore(@, rumor.id, rumor.raw),
                          !.gift_wrap_map = InsertOrIgnore(@, w, rumor.id) ],
               ok |-> TRUE ]

(* the rumor is stored under the envelope's id *)
store_event_unwrapped_under_wrap_id(db, w, unwrapped) ==
    LET rumor == ensure_id(unwrapped.rumor)
    IN  IF unwrapped.sender # rumor.raw.pubkey
        THEN [ db |-> db, ok |-> FALSE ]
        ELSE IF is_deleted(db, rumor.id, rumor.raw.pubkey)
        THEN [ db |-> db, ok |-> TRUE ]
        ELSE [ db |-> [ db EXCEPT
                          !.events = InsertOrIgnore(@, w, rumor.raw),
                          !.gift_wrap_map = InsertOrIgnore(@, w, rumor.id) ],
               ok |-> TRUE ]

(* Db::store_event with an unwrap context: [db, ok]                        *)
store_event_unwrapped(db, w, unwrapped) ==
    LET rumor == ensure_id(unwrapped.rumor)
    IN  IF unwrapped.sender # rumor.raw.pubkey
        THEN [ db |-> db, ok |-> FALSE ]
        ELSE IF is_deleted(db, rumor.id, rumor.raw.pubkey)
        THEN [ db |-> db, ok |-> TRUE ]
        ELSE [ db |-> [ db EXCEPT
                          !.events = InsertOrIgnore(@, rumor.id, rumor.raw),
                          !.gift_wrap_map = InsertOrIgnore(@, w, rumor.id) ],
               ok |-> TRUE ]

(* a plain INSERT: a duplicate id is a constraint error *)
store_event_plain_no_ignore(db, id, raw) ==
    IF is_deleted(db, id, raw.pubkey) THEN [ db |-> db, ok |-> TRUE ]
    ELSE IF id \in DOMAIN db.events THEN [ db |-> db, ok |-> FALSE ]
    ELSE [ db |-> [ db EXCEPT !.events = InsertOrIgnore(@, id, raw) ], ok |-> TRUE ]

(* the insert also takes the id out of the trash *)
store_event_plain_untrash(db, id, raw) ==
    IF is_deleted(db, id, raw.pubkey)
    THEN [ db |-> db, ok |-> TRUE ]
    ELSE [ db |-> [ db EXCEPT !.events = InsertOrIgnore(@, id, raw),
                              !.trash_events = Restrict(@, DOMAIN @ \ {id}) ],
           ok |-> TRUE ]

(* Db::store_event without one *)
store_event_plain(db, id, raw) ==
    IF is_deleted(db, id, raw.pubkey)
    THEN [ db |-> db, ok |-> TRUE ]
    ELSE [ db |-> [ db EXCEPT !.events = InsertOrIgnore(@, id, raw) ], ok |-> TRUE ]

(* Db::record_deletions: the rows of `ids` that are stored (and, with an    *)
(* author, stored under that author) are deleted and get a marker; one     *)
(* transaction.  source_event_id is written and never read: left out.      *)
deletable_ids_any_author(db, ids, author) == ids \cap DOMAIN db.events

(* every named id, stored or not *)
deletable_ids_named(db, ids, author) == ids

deletable_ids(db, ids, author) ==
    { id \in ids \cap DOMAIN db.events :
        author = NULL \/ db.events[id].pubkey = author }

RECURSIVE InsertAllOrIgnore(_, _, _)
InsertAllOrIgnore(f, ks, v) ==
    IF ks = {} THEN f
    ELSE LET k == CHOOSE x \in ks : TRUE
         IN  InsertAllOrIgnore(InsertOrIgnore(f, k, v), ks \ {k}, v)

RECURSIVE InsertAllOrReplace(_, _, _)
InsertAllOrReplace(f, ks, v) ==
    IF ks = {} THEN f
    ELSE LET k == CHOOSE x \in ks : TRUE
         IN  InsertAllOrReplace(InsertOrReplace(f, k, v), ks \ {k}, v)

(* a named target that may not be deleted fails the whole batch *)
record_deletions_all_or_nothing(db, ids, author) ==
    IF deletable_ids(db, ids, author) # ids THEN db
    ELSE [ db EXCEPT
             !.events = Restrict(@, DOMAIN @ \ ids),
             !.deleted_events = IF author # NULL
                                THEN InsertAllOrIgnore(@, ids, author)
                                ELSE InsertAllOrReplace(@, ids, NULL) ]

(* only the marker is written: the row stays *)
record_deletions_marker_only(db, ids, author) ==
    LET del == deletable_ids(db, ids, author)
    IN  [ db EXCEPT
            !.deleted_events = IF author # NULL
                               THEN InsertAllOrIgnore(@, del, author)
                               ELSE InsertAllOrReplace(@, del, NULL) ]

record_deletions(db, ids, author) ==
    LET del == deletable_ids(db, ids, author)
    IN  [ db EXCEPT
            !.events = Restrict(@, DOMAIN @ \ del),
            !.deleted_events = IF author # NULL
                               THEN InsertAllOrIgnore(@, del, author)
                               ELSE InsertAllOrReplace(@, del, NULL) ]

(* Db::record_trash *)
record_trash(db, ids, purge_after) ==
    [ db EXCEPT !.trash_events = InsertAllOrReplace(@, ids, purge_after) ]

(* Db::purge_expired_trash: [db, ids], one transaction *)
expired_ids_strict(db, now) ==
    { id \in DOMAIN db.trash_events : db.trash_events[id] < now }

expired_ids(db, now) ==
    { id \in DOMAIN db.trash_events : db.trash_events[id] <= now }

purge_expired_trash(db, now) ==
    LET ids == expired_ids(db, now)
    IN  [ db  |-> [ db EXCEPT
                      !.deleted_events = InsertAllOrIgnore(@, ids, NULL),
                      !.events = Restrict(@, DOMAIN @ \ ids),
                      !.trash_events = Restrict(@, DOMAIN @ \ ids) ],
          ids |-> ids ]

(* the DELETE names the wrong table *)
restore_from_trash_wrong_table(db, id) ==
    [ db EXCEPT !.events = Restrict(@, DOMAIN @ \ {id}) ]

(* the restore forgets the marker of the id as well *)
restore_from_trash_and_marker(db, id) ==
    [ db EXCEPT !.trash_events = Restrict(@, DOMAIN @ \ {id}),
                !.deleted_events = Restrict(@, DOMAIN @ \ {id}) ]

(* Db::restore_from_trash *)
restore_from_trash(db, id) ==
    [ db EXCEPT !.trash_events = Restrict(@, DOMAIN @ \ {id}) ]

(* Db::record_deletion_markers *)
record_deletion_markers(db, ids) ==
    [ db EXCEPT !.deleted_events = InsertAllOrIgnore(@, ids, NULL) ]

(* Db::delete_from_trash *)
delete_from_trash(db, ids) ==
    [ db EXCEPT !.trash_events = Restrict(@, DOMAIN @ \ ids) ]

(* Db::purge_deleted_events: the rows of events and of profile_metadata    *)
(* whose id has a marker that applies to their author are deleted          *)
purge_deleted_events(db, pm) ==
    [ db |-> [ db EXCEPT !.events =
                 Restrict(@, { e \in DOMAIN @ : row_not_deleted(db, e) }) ],
      pm |-> Restrict(pm, { p \in DOMAIN pm :
                 ~ ( /\ pm[p].id \in DOMAIN db.deleted_events
                     /\ \/ db.deleted_events[pm[p].id] = NULL
                        \/ db.deleted_events[pm[p].id] = p ) }) ]

(* Db::get_event_kind_pubkey: the stored author, NULL for no row *)
get_event_kind_pubkey(db, id) ==
    IF id \in DOMAIN db.events THEN db.events[id].pubkey ELSE NULL

(* --------------------------- the interface ----------------------------- *)
(* apply_deletion(ids, author_scope, deletion_request_id): record_deletions *)
(* on the named ids, then, for the targets the lookup of the stored author  *)
(* authorises, the trash entry is removed and every envelope mapped to the  *)
(* target gets a marker.                                                    *)
authorised_targets(db, ids, author) ==
    { id \in ids : /\ get_event_kind_pubkey(db, id) # NULL
                   /\ author = NULL \/ get_event_kind_pubkey(db, id) = author }

wrap_ids_of(db, ids) == UNION { get_wrap_ids_for_inner(db, id) : id \in ids }

apply_deletion(db, ids, author) ==
    LET targets == authorised_targets(db, ids, author)
        wraps   == wrap_ids_of(db, targets)
    IN  record_deletion_markers(
            delete_from_trash(record_deletions(db, ids, author), targets), wraps)

(* purge_expired(now): the sweep, then the markers of the envelopes mapped  *)
(* to the purged ids.                                                       *)
purge_expired(db, now) ==
    LET r == purge_expired_trash(db, now)
    IN  [ db  |-> record_deletion_markers(r.db, wrap_ids_of(db, r.ids)),
          ids |-> r.ids ]

(* ----------------------------- profiles -------------------------------- *)
(* The Metadata records that can be delivered: every author has several,   *)
(* with created_at 1, 2, 2, 3, 3, ... (ties included) and a content of its *)
(* own each.                                                               *)
MetaIds == (NumMsgs + NumWraps + 1)..(NumMsgs + NumWraps + NumMetas)

MetaIndex(k) == k - NumMsgs - NumWraps

MetadataEvent(k) ==
    [ pubkey     |-> ((MetaIndex(k) - 1) % NumAuthors) + 1,
      created_at |-> ((((MetaIndex(k) - 1) \div NumAuthors) + 1) \div 2) + 1,
      kind       |-> METADATA_KIND,
      content    |-> k,
      subject    |-> FALSE,
      etags      |-> {} ]

(* Metadata records whose content is not the JSON of a profile, one for   *)
(* every author                                                            *)
BadMetaIds ==
    (NumMsgs + NumWraps + NumMetas + 1)..(NumMsgs + NumWraps + NumMetas + NumAuthors)

(* serde_json::from_str::<ProfileMetadata>(&event.content) is Ok *)
profile_json_ok(k) == k \notin BadMetaIds

(* Db::pmeta_is_newer: the SELECT EXISTS is run with Connection::execute   *)
(* and its row is never read.  execute reports an error for a statement    *)
(* that returns a row; when it does not fail the function returns true.    *)
(* Neither outcome depends on the stored created_at.                       *)
pmeta_is_newer(pm, pubkey, created_at) ==
    { [ ok |-> FALSE, value |-> FALSE ], [ ok |-> TRUE, value |-> TRUE ] }

(* Db::write_profile_metadata: REPLACE INTO profile_metadata               *)
write_profile_metadata(pm, id, event) ==
    IF event.kind # METADATA_KIND
    THEN [ pm |-> pm, ok |-> FALSE ]
    ELSE [ pm |-> InsertOrReplace(pm, event.pubkey,
                     [ id |-> id, fields |-> event.content,
                       created_at |-> event.created_at ]),
           ok |-> TRUE ]

(* Db::update_profile_metadata, for one outcome of pmeta_is_newer          *)
update_profile_metadata(pm, id, event, newer) ==
    IF ~ newer.ok THEN [ pm |-> pm, ok |-> FALSE ]
    ELSE IF newer.value THEN write_profile_metadata(pm, id, event)
    ELSE [ pm |-> pm, ok |-> TRUE ]

(* ----------------------------- accounts -------------------------------- *)
(* The key pairs an account can have.  The public key in hex and the       *)
(* secret bytes are different values of one key pair, and the key pair is  *)
(* rebuilt from the secret bytes.                                          *)
AccountKeys == 1..NumKeys

public_key(k) == 2 * k

secret_key(k) == (2 * k) + 1

KeysFromSecret(bytes) == CHOOSE k \in AccountKeys : secret_key(k) = bytes

SeqRange(q) == { q[i] : i \in 1..Len(q) }

(* Db::add_pubkey: a plain INSERT.  It writes one more row, or returns the *)
(* error of the storage layer (for a pubkey that has a row, the table's    *)
(* constraint error) and writes nothing.                                   *)
add_pubkey(rows, pk) ==
    { [ ok |-> TRUE, rows |-> Append(rows, pk) ],
      [ ok |-> FALSE, rows |-> rows ] }

(* Db::delete_pubkey *)
delete_pubkey(rows, pk) == SelectSeq(rows, LAMBDA r : r # pk)

(* the key is kept in the keyring and in memory, but gets no row           *)
save_keys_no_row(am, ks, rows, k, added) ==
    [ am |-> [ am EXCEPT !.loaded_keys = Append(@, k) ],
      ks |-> InsertOrReplace(ks, public_key(k), secret_key(k)),
      rows |-> rows, ok |-> TRUE ]

(* AccountManager::save_keys, and generate_new_keys_and_save for the key   *)
(* it generated: set_secret, add_pubkey (`added` is its outcome), push     *)
save_keys(am, ks, rows, k, added) ==
    IF ~ added.ok
    THEN [ am |-> am, ks |-> InsertOrReplace(ks, public_key(k), secret_key(k)),
           rows |-> rows, ok |-> FALSE ]
    ELSE [ am |-> [ am EXCEPT !.loaded_keys = Append(@, k) ],
           ks |-> InsertOrReplace(ks, public_key(k), secret_key(k)),
           rows |-> added.rows, ok |-> TRUE ]

(* AccountManager::load_keys: the rows whose secret the keyring holds, as  *)
(* key pairs; a row without one is skipped                                 *)
RECURSIVE load_keys(_, _)
load_keys(ks, rows) ==
    IF rows = <<>> THEN <<>>
    ELSE IF Head(rows) \in DOMAIN ks
    THEN <<KeysFromSecret(ks[Head(rows)])>> \o load_keys(ks, Tail(rows))
    ELSE load_keys(ks, Tail(rows))

(* Vec::remove at the position of the first key with that public key      *)
RemoveFirst(q, k) ==
    IF k \notin SeqRange(q) THEN q
    ELSE LET i == CHOOSE j \in 1..Len(q) :
                     q[j] = k /\ \A h \in 1..(j - 1) : q[h] # k
         IN  SubSeq(q, 1, i - 1) \o SubSeq(q, i + 1, Len(q))

(* AccountManager::delete_key: delete_pubkey, delete_credential (an error  *)
(* when the keyring has no entry), then the removal from loaded_keys       *)
delete_key(am, ks, rows, k) ==
    IF public_key(k) \notin DOMAIN ks
    THEN [ am |-> am, ks |-> ks, rows |-> delete_pubkey(rows, public_key(k)),
           ok |-> FALSE ]
    ELSE [ am |-> [ am EXCEPT !.loaded_keys = RemoveFirst(@, k) ],
           ks |-> Restrict(ks, DOMAIN ks \ {public_key(k)}),
           rows |-> delete_pubkey(rows, public_key(k)),
           ok |-> TRUE ]

(* ------------------------------ actions -------------------------------- *)
CommitTables(db) ==
    /\ events' = db.events
    /\ deleted_events' = db.deleted_events
    /\ trash_events' = db.trash_events
    /\ gift_wrap_map' = db.gift_wrap_map

Commit(db) ==
    /\ CommitTables(db)
    /\ UNCHANGED profiles
    /\ UNCHANGED accounts
    /\ UNCHANGED loader
    /\ UNCHANGED shell
    /\ UNCHANGED ingest
    /\ UNCHANGED cascade

Empty == [ x \in {} |-> NULL ]

(* no cascade is running *)
NoCascade == [ trash |-> {}, wraps |-> {} ]

NoItem == [ id |-> NULL, parsed |-> FALSE, verified |-> FALSE ]

(* Hoot::new on a store that holds the records `stored`: the page is       *)
(* Unlock when the file `done` exists, Onboarding when it does not         *)
Construct(first_page, stored) ==
    /\ status = "PreUnlock"
    /\ page = first_page
    /\ unlocked = FALSE
    /\ table_entries = <<>>
    /\ loaded = [ keys |-> FALSE, listing |-> FALSE ]
    /\ transport = <<>>
    /\ pump = [ phase |-> "update", item |-> NoItem, pulls |-> 0 ]
    /\ events = stored
    /\ deleted_events = Empty
    /\ trash_events = Empty
    /\ gift_wrap_map = Empty
    /\ profile_metadata = Empty
    /\ app_profile_metadata = Empty
    /\ account_manager = [ loaded_keys |-> <<>> ]
    /\ keystore = Empty
    /\ pubkeys = <<>>
    /\ cascade = NoCascade
    /\ app_events = <<>>
    /\ panicked = FALSE
    /\ images = Empty
    /\ pending = {}
    /\ failed = {}
    /\ channel = <<>>
    /\ fetches = <<>>
    /\ picture = [ k \in ContactKeys |-> NULL ]
    /\ last = [ op |-> "init", ok |-> TRUE ]

(* the first start of the program after the onboarding was finished *)
Init == Construct("Unlock", Empty)

(* a start of the program: before the onboarding was finished, after it,   *)
(* or on a store in which an earlier run left a thread                     *)
InitStartup ==
    \/ Construct("Onboarding", Empty)
    \/ Construct("Unlock", Empty)
    \/ \E S \in {{1}, {1, 3}} : Construct("Unlock", [ x \in S |-> RawEventData(x) ])

Batches(M, n) == { S \in SUBSET M : Cardinality(S) <= n }

Insert(M) ==
    \E n \in M :
        LET r == store_event_plain(Db, compute_id(RawEventData(n)), RawEventData(n))
        IN  /\ Commit(r.db)
            /\ last' = [ op |-> "insert", id |-> n, ok |-> r.ok ]

InsertEnvelope ==
    \E w \in WrapIds :
        LET r == IF ~ unwrap_gift_wrap(w).ok
                 THEN [ db |-> Db, ok |-> FALSE ]
                 ELSE store_event_unwrapped(Db, w, unwrap_gift_wrap(w).gift)
        IN  /\ Commit(r.db)
            /\ last' = [ op |-> "insert_envelope", id |-> w, ok |-> r.ok ]

MoveToTrash(M, n, T) ==
    \E ids \in Batches(M, n), t \in T :
        /\ Commit(record_trash(Db, ids, t))
        /\ last' = [ op |-> "move_to_trash", ids |-> ids, purge_after |-> t, ok |-> TRUE ]

Restore(M) ==
    \E id \in M :
        /\ Commit(restore_from_trash(Db, id))
        /\ last' = [ op |-> "restore", id |-> id, was_trashed |-> is_trashed(Db, id),
                     ok |-> TRUE ]

ApplyDeletion(M, n, A) ==
    \E ids \in Batches(M, n), author \in A :
        /\ Commit(apply_deletion(Db, ids, author))
        /\ last' = [ op |-> "apply_deletion", ids |-> ids, author |-> author, ok |-> TRUE ]

PurgeExpired ==
    \E now \in 0..MaxTime :
        LET r == purge_expired(Db, now)
        IN  /\ Commit(r.db)
            /\ last' = [ op |-> "purge_expired", now |-> now, ids |-> r.ids, ok |-> TRUE ]

PurgeDeletedEvents ==
    LET r == purge_deleted_events(Db, profile_metadata)
    IN  /\ CommitTables(r.db)
        /\ profile_metadata' = r.pm
        /\ UNCHANGED app_profile_metadata
        /\ UNCHANGED accounts
        /\ UNCHANGED loader
        /\ UNCHANGED shell
        /\ UNCHANGED ingest
        /\ UNCHANGED cascade
        /\ last' = [ op |-> "purge_deleted_events", ok |-> TRUE ]

TopLevelListing ==
    \E res \in top_level_entries(Db) :
        /\ UNCHANGED <<events, deleted_events, trash_events, gift_wrap_map>>
        /\ UNCHANGED profiles
        /\ UNCHANGED accounts
        /\ UNCHANGED loader
        /\ UNCHANGED shell
        /\ UNCHANGED ingest
        /\ UNCHANGED cascade
        /\ last' = [ op |-> "top_level_listing", rows |-> get_top_level_messages(Db),
                     entries |-> res.entries, ok |-> res.ok ]

Thread(M) ==
    \E id \in M, exclude_trash \in BOOLEAN :
        \E rows \in get_email_thread_inner(Db, id, exclude_trash) :
            /\ UNCHANGED <<events, deleted_events, trash_events, gift_wrap_map>>
            /\ UNCHANGED profiles
            /\ UNCHANGED accounts
            /\ UNCHANGED loader
            /\ UNCHANGED shell
            /\ UNCHANGED ingest
            /\ UNCHANGED cascade
            /\ last' = [ op |-> "thread", id |-> id, exclude_trash |-> exclude_trash,
                         rows |-> rows, ok |-> TRUE ]

(* The items the relay can deliver: a text that is no record, and every    *)
(* record of Ids with a signature that verifies or does not.               *)
InboundItems(Ids) ==
    { [ id |-> NULL, parsed |-> FALSE, verified |-> FALSE ] }
    \cup { [ id |-> i, parsed |-> TRUE, verified |-> v ] : i \in Ids, v \in BOOLEAN }

Verified(Ids) == { [ id |-> i, parsed |-> TRUE, verified |-> TRUE ] : i \in Ids }

(* the record an id of the catalogs names *)
EventOf(id) == IF id \in MsgIds THEN RawEventData(id) ELSE MetadataEvent(id)

(* the store write of process_event: a gift wrap is unwrapped and its      *)
(* rumor stored, any other record is stored as it is; io = FALSE is a      *)
(* failure of the storage layer                                            *)
store_inbound(db, id, io) ==
    IF ~ io THEN [ db |-> db, ok |-> FALSE ]
    ELSE IF id \in WrapIds
    THEN IF ~ unwrap_gift_wrap(id).ok
         THEN [ db |-> db, ok |-> FALSE ]
         ELSE store_event_unwrapped(db, id, unwrap_gift_wrap(id).gift)
    ELSE store_event_plain(db, id, EventOf(id))

(* process_event: an item that does not parse or does not verify is        *)
(* logged; a record whose id is stored is skipped; for a Metadata record   *)
(* the content is deserialized with unwrap(), the profile shown is         *)
(* replaced and update_profile_metadata is called (an error is logged);    *)
(* then the record is pushed on Hoot::events and store_event is called (an *)
(* error is logged).  cap bounds the length of Hoot::events.               *)
ProcessEvent(Items, IO, cap) ==
    \E item \in Items, io \in IO :
        LET id     == item.id
            isMeta == id \in MetaIds \cup BadMetaIds
        IN  /\ ~ panicked
            /\ UNCHANGED accounts
            /\ UNCHANGED loader
            /\ UNCHANGED shell
            /\ UNCHANGED cascade
            /\ IF ~ item.parsed \/ ~ item.verified
               THEN /\ UNCHANGED <<events, deleted_events, trash_events, gift_wrap_map>>
                    /\ UNCHANGED profiles
                    /\ UNCHANGED ingest
                    /\ last' = [ op |-> "process_event", id |-> id,
                                 item |-> item, skipped |-> FALSE, pushed |-> FALSE,
                                 write_failed |-> FALSE, ok |-> TRUE ]
               ELSE IF has_event(Db, id)
               THEN /\ UNCHANGED <<events, deleted_events, trash_events, gift_wrap_map>>
                    /\ UNCHANGED profiles
                    /\ UNCHANGED ingest
                    /\ last' = [ op |-> "process_event", id |-> id,
                                 item |-> item, skipped |-> TRUE, pushed |-> FALSE,
                                 write_failed |-> FALSE, ok |-> TRUE ]
               ELSE IF isMeta /\ ~ profile_json_ok(id)
               THEN /\ UNCHANGED <<events, deleted_events, trash_events, gift_wrap_map>>
                    /\ UNCHANGED profiles
                    /\ UNCHANGED app_events
                    /\ panicked' = TRUE
                    /\ last' = [ op |-> "process_event", id |-> id,
                                 item |-> item, skipped |-> FALSE, pushed |-> FALSE,
                                 write_failed |-> FALSE, ok |-> FALSE ]
               ELSE \E newer \in IF isMeta
                                 THEN pmeta_is_newer(profile_metadata, EventOf(id).pubkey,
                                                     EventOf(id).created_at)
                                 ELSE { [ ok |-> TRUE, value |-> FALSE ] } :
                      LET u == IF isMeta
                               THEN update_profile_metadata(profile_metadata, id,
                                                            EventOf(id), newer)
                               ELSE [ pm |-> profile_metadata, ok |-> TRUE ]
                          r == store_inbound(Db, id, io)
                      IN  /\ Len(app_events) < cap
                          /\ app_profile_metadata' =
                                 IF isMeta
                                 THEN InsertOrReplace(app_profile_metadata,
                                                      EventOf(id).pubkey, EventOf(id).content)
                                 ELSE app_profile_metadata
                          /\ profile_metadata' = u.pm
                          /\ app_events' = Append(app_events, id)
                          /\ UNCHANGED panicked
                          /\ CommitTables(r.db)
                          /\ last' = [ op |-> "process_event", id |-> id,
                                       item |-> item, skipped |-> FALSE, pushed |-> TRUE,
                                       write_failed |-> (~ u.ok \/ ~ r.ok), ok |-> u.ok ]

(* process_event for the verified Metadata records with a well-formed      *)
(* content, the storage layer working                                      *)
ProcessMetadata == ProcessEvent(Verified(MetaIds), {TRUE}, NumMetas)

(* update_logged_in_profile_metadata: a loaded account edits its profile;  *)
(* the record it signs is written with write_profile_metadata.             *)
UpdateLoggedInProfile ==
    \E k \in MetaIds :
        /\ MetadataEvent(k).pubkey \in loaded_keys
        /\ app_profile_metadata' =
               InsertOrReplace(app_profile_metadata, MetadataEvent(k).pubkey,
                               MetadataEvent(k).content)
        /\ profile_metadata' =
               write_profile_metadata(profile_metadata, k, MetadataEvent(k)).pm
        /\ UNCHANGED <<events, deleted_events, trash_events, gift_wrap_map>>
        /\ UNCHANGED accounts
        /\ UNCHANGED loader
        /\ UNCHANGED shell
        /\ UNCHANGED ingest
        /\ UNCHANGED cascade
        /\ last' = [ op |-> "update_logged_in_profile", id |-> k, ok |-> TRUE ]

CommitAccounts(r) ==
    /\ account_manager' = r.am
    /\ keystore' = r.ks
    /\ pubkeys' = r.rows
    /\ UNCHANGED <<events, deleted_events, trash_events, gift_wrap_map>>
    /\ UNCHANGED profiles
    /\ UNCHANGED cascade
    /\ UNCHANGED ingest
    /\ UNCHANGED loader
    /\ UNCHANGED shell

(* generate_new_keys_and_save: Keys::generate gives a key pair that is not *)
(* known anywhere yet                                                      *)
GenerateNewKeysAndSave ==
    \E k \in AccountKeys :
        /\ k \notin SeqRange(account_manager.loaded_keys)
        /\ public_key(k) \notin DOMAIN keystore
        /\ public_key(k) \notin SeqRange(pubkeys)
        /\ \E added \in add_pubkey(pubkeys, public_key(k)) :
              LET r == save_keys(account_manager, keystore, pubkeys, k, added)
              IN  /\ CommitAccounts(r)
                  /\ last' = [ op |-> "generate_new_keys_and_save", key |-> k,
                               ok |-> r.ok ]

SaveKeys ==
    \E k \in AccountKeys :
        /\ Len(account_manager.loaded_keys) < MaxRows
        /\ Len(pubkeys) < MaxRows
        /\ \E added \in add_pubkey(pubkeys, public_key(k)) :
              LET r == save_keys(account_manager, keystore, pubkeys, k, added)
              IN  /\ CommitAccounts(r)
                  /\ last' = [ op |-> "save_keys", key |-> k, ok |-> r.ok ]

(* load_keys, run by the AccountManager of a new start of the program      *)
LoadKeys ==
    /\ CommitAccounts([ am |-> [ loaded_keys |-> load_keys(keystore, pubkeys) ],
                        ks |-> keystore, rows |-> pubkeys ])
    /\ last' = [ op |-> "load_keys", keys |-> load_keys(keystore, pubkeys),
                 ok |-> TRUE ]

DeleteKey ==
    \E k \in AccountKeys :
        LET r == delete_key(account_manager, keystore, pubkeys, k)
        IN  /\ CommitAccounts(r)
            /\ last' = [ op |-> "delete_key", key |-> k, ok |-> r.ok ]

(* A deletion and a purge sweep, statement by statement.  record_deletions *)
(* and purge_expired_trash commit a transaction of their own; the trash    *)
(* entries of the targets and the markers of their envelopes are written   *)
(* by later calls, and record_deletion_markers commits marker by marker.   *)
Idle == cascade = NoCascade

BeginDeletion(M, A) ==
    \E id \in M, author \in A :
        /\ Idle
        /\ CommitTables(record_deletions(Db, {id}, author))
        /\ cascade' = [ trash |-> authorised_targets(Db, {id}, author),
                        wraps |-> wrap_ids_of(Db, authorised_targets(Db, {id}, author)) ]
        /\ UNCHANGED profiles
        /\ UNCHANGED accounts
        /\ UNCHANGED loader
        /\ UNCHANGED shell
        /\ UNCHANGED ingest
        /\ last' = [ op |-> "record_deletions", ids |-> {id}, author |-> author,
                     ok |-> TRUE ]

BeginPurge ==
    \E now \in 0..MaxTime :
        LET r == purge_expired_trash(Db, now)
        IN  /\ Idle
            /\ CommitTables(r.db)
            /\ cascade' = [ trash |-> {}, wraps |-> wrap_ids_of(Db, r.ids) ]
            /\ UNCHANGED profiles
            /\ UNCHANGED accounts
            /\ UNCHANGED loader
            /\ UNCHANGED shell
            /\ UNCHANGED ingest
            /\ last' = [ op |-> "purge_expired_trash", now |-> now, ids |-> r.ids,
                         ok |-> TRUE ]

CascadeTrash ==
    /\ cascade.trash # {}
    /\ CommitTables(delete_from_trash(Db, cascade.trash))
    /\ cascade' = [ cascade EXCEPT !.trash = {} ]
    /\ UNCHANGED profiles
    /\ UNCHANGED accounts
    /\ UNCHANGED loader
    /\ UNCHANGED shell
    /\ UNCHANGED ingest
    /\ last' = [ op |-> "delete_from_trash", ids |-> cascade.trash, ok |-> TRUE ]

CascadeMarker ==
    \E w \in cascade.wraps :
        /\ cascade.trash = {}
        /\ CommitTables(record_deletion_markers(Db, {w}))
        /\ cascade' = [ cascade EXCEPT !.wraps = @ \ {w} ]
        /\ UNCHANGED profiles
        /\ UNCHANGED accounts
        /\ UNCHANGED loader
        /\ UNCHANGED shell
        /\ UNCHANGED ingest
        /\ last' = [ op |-> "record_deletion_markers", ids |-> {w}, ok |-> TRUE ]

(* the process stops; the statements still to run are never run           *)
Crash ==
    /\ ~ Idle
    /\ cascade' = NoCascade
    /\ UNCHANGED <<events, deleted_events, trash_events, gift_wrap_map>>
    /\ UNCHANGED profiles
    /\ UNCHANGED accounts
    /\ UNCHANGED loader
    /\ UNCHANGED shell
    /\ UNCHANGED ingest
    /\ last' = [ op |-> "crash", ok |-> FALSE ]

(* The store with its envelopes: the first half of the catalog arrives     *)
(* plain or wrapped, is trashed, restored, deleted and purged.             *)
Inbox == 1..(NumMsgs \div 2)

Next ==
    \/ Insert(Inbox)
    \/ InsertEnvelope
    \/ MoveToTrash(Inbox, MaxBatch, Times)
    \/ Restore(Inbox)
    \/ ApplyDeletion(Inbox, MaxBatch, Authors \cup {NULL})
    \/ PurgeExpired
    \/ PurgeDeletedEvents
    \/ TopLevelListing
    \/ Thread(Inbox)

Spec == Init /\ [][Next]_vars

(* The conversations: every record of the catalog arrives plain, one at a  *)
(* time, and the threads are read.                                         *)
NextThread ==
    \/ Insert(MsgIds)
    \/ MoveToTrash(MsgIds, 1, {MaxTime})
    \/ Restore(MsgIds)
    \/ ApplyDeletion(MsgIds, 1, {NULL})
    \/ Thread(MsgIds)

SpecThread == Init /\ [][NextThread]_vars

(* The listing: every record of the catalog arrives plain, records are     *)
(* trashed, restored and deleted, and the top-level table is read.         *)
NextListing ==
    \/ Insert(MsgIds)
    \/ MoveToTrash(MsgIds, 1, {MaxTime})
    \/ Restore(MsgIds)
    \/ ApplyDeletion(MsgIds, 1, {NULL})
    \/ TopLevelListing

SpecListing == Init /\ [][NextListing]_vars

(* The ingestion: the relay delivers texts that are no record, records     *)
(* whose signature does not verify, mail records, gift wraps and Metadata  *)
(* records, and the storage layer may fail.                                *)
IngestIds ==
    Inbox \cup WrapIds \cup BadMetaIds
          \cup (NumMsgs + NumWraps + 1)..(NumMsgs + NumWraps + NumAuthors)

NextIngest == ProcessEvent(InboundItems(IngestIds), BOOLEAN, MaxEvents)

SpecIngest == Init /\ [][NextIngest]_vars

(* The profiles: Metadata records arrive in any order, and a loaded        *)
(* account edits its own profile.                                          *)
NextProfile ==
    \/ ProcessMetadata
    \/ UpdateLoggedInProfile

SpecProfile == Init /\ [][NextProfile]_vars

(* The accounts: keys are generated, imported, loaded at a start of the    *)
(* program, and removed.                                                   *)
NextAccounts ==
    \/ GenerateNewKeysAndSave
    \/ SaveKeys
    \/ LoadKeys
    \/ DeleteKey

SpecAccounts == Init /\ [][NextAccounts]_vars

(* The cascades: records and envelopes arrive and are trashed between      *)
(* cascades; a cascade runs statement by statement and may be cut short.   *)
NextCascade ==
    \/ Idle /\ Insert(Inbox)
    \/ Idle /\ InsertEnvelope
    \/ Idle /\ MoveToTrash(Inbox, 1, Times)
    \/ BeginDeletion(Inbox, Authors \cup {NULL})
    \/ BeginPurge
    \/ CascadeTrash
    \/ CascadeMarker
    \/ Crash

SpecCascade == Init /\ [][NextCascade]_vars

(* ------------------------------ the frame ------------------------------ *)
(* eframe calls update for every frame: update_app, then render_app, on    *)
(* one thread.  pump.phase is the position in the frame: "update" (the     *)
(* status branch of update_app), "recv" (try_recv), "verify", "check" and  *)
(* "store" (process_event), "render" (render_app).  The relays' sockets    *)
(* run on threads of their own and fill the transport at any time.         *)
Phase(ph) == pump.phase = ph

Goto(ph) == pump' = [ pump EXCEPT !.phase = ph ]

StoreUnchanged ==
    /\ UNCHANGED <<events, deleted_events, trash_events, gift_wrap_map>>
    /\ UNCHANGED profiles
    /\ UNCHANGED cascade
    /\ UNCHANGED <<images, pending, failed, channel, fetches, picture>>

(* a relay's socket thread queues a message for the pool *)
Deliver(Items) ==
    \E item \in Items :
        /\ Len(transport) < MaxQueue
        /\ transport' = Append(transport, item)
        /\ StoreUnchanged
        /\ UNCHANGED <<account_manager, keystore, pubkeys>>
        /\ UNCHANGED ingest
        /\ UNCHANGED <<status, page, unlocked, table_entries, loaded, pump>>
        /\ last' = [ op |-> "deliver", id |-> item.id, ok |-> TRUE ]

(* update_app up to its try_recv: PreUnlock becomes WaitingForUnlock and   *)
(* the function returns; Initalizing loads the keys and the top-level      *)
(* listing (an error of either is logged) and becomes Ready                *)
UpdateStatus ==
    /\ Phase("update")
    /\ StoreUnchanged
    /\ UNCHANGED ingest
    /\ UNCHANGED <<keystore, pubkeys, page, unlocked, transport>>
    /\ IF status = "PreUnlock"
       THEN /\ status' = "WaitingForUnlock"
            /\ Goto("render")
            /\ UNCHANGED <<account_manager, table_entries, loaded>>
       ELSE IF status = "Initalizing"
       THEN \E res \in top_level_entries(Db) :
                /\ account_manager' =
                       IF unlocked
                       THEN [ loaded_keys |-> load_keys(keystore, pubkeys) ]
                       ELSE account_manager
                /\ table_entries' = IF unlocked /\ res.ok THEN res.entries
                                                          ELSE table_entries
                /\ loaded' = [ keys |-> unlocked, listing |-> unlocked /\ res.ok ]
                /\ status' = "Ready"
                /\ Goto("recv")
       ELSE /\ Goto("recv")
            /\ UNCHANGED <<status, account_manager, table_entries, loaded>>
    /\ last' = [ op |-> "update_status", ok |-> TRUE ]

(* try_recv is called again while a record is between its check and its   *)
(* write                                                                   *)
can_recv_while_processing(p) == p.phase \in {"recv", "store"}

(* the place of update_app where try_recv is called *)
can_recv(p) == p.phase = "recv"

(* RelayPool::try_recv, called once: nothing, or the first message *)
TryRecv ==
    /\ can_recv(pump)
    /\ StoreUnchanged
    /\ UNCHANGED <<account_manager, keystore, pubkeys>>
    /\ UNCHANGED ingest
    /\ UNCHANGED <<status, page, unlocked, table_entries, loaded>>
    /\ IF transport = <<>>
       THEN /\ Goto("render")
            /\ UNCHANGED transport
       ELSE /\ transport' = Tail(transport)
            /\ pump' = [ phase |-> "verify", item |-> Head(transport),
                         pulls |-> pump.pulls + 1 ]
    /\ last' = [ op |-> "try_recv", ok |-> transport # <<>> ]

(* process_event: the parse and event.verify() *)
Verify ==
    /\ Phase("verify")
    /\ StoreUnchanged
    /\ UNCHANGED <<account_manager, keystore, pubkeys>>
    /\ UNCHANGED ingest
    /\ UNCHANGED <<status, page, unlocked, table_entries, loaded, transport>>
    /\ Goto(IF pump.item.parsed /\ pump.item.verified THEN "check" ELSE "render")
    /\ last' = [ op |-> "verify", ok |-> pump.item.parsed /\ pump.item.verified ]

(* process_event: has_event; a stored record is skipped, and an error of   *)
(* has_event (the database is locked) is taken for "not stored"            *)
Check ==
    /\ Phase("check")
    /\ StoreUnchanged
    /\ UNCHANGED <<account_manager, keystore, pubkeys>>
    /\ UNCHANGED ingest
    /\ UNCHANGED <<status, page, unlocked, table_entries, loaded, transport>>
    /\ Goto(IF unlocked /\ has_event(Db, pump.item.id) THEN "render" ELSE "store")
    /\ last' = [ op |-> "has_event", ok |-> unlocked ]

(* process_event for a record that is no Metadata: the push on             *)
(* Hoot::events and store_event, which fails on a locked database          *)
Store ==
    LET r == store_inbound(Db, pump.item.id, unlocked)
    IN  /\ Phase("store")
        /\ Len(app_events) < MaxEvents
        /\ app_events' = Append(app_events, pump.item.id)
        /\ UNCHANGED panicked
        /\ CommitTables(r.db)
        /\ UNCHANGED profiles
        /\ UNCHANGED cascade
        /\ UNCHANGED <<images, pending, failed, channel, fetches, picture>>
        /\ UNCHANGED <<account_manager, keystore, pubkeys>>
        /\ UNCHANGED <<status, page, unlocked, table_entries, loaded, transport>>
        /\ Goto("render")
        /\ last' = [ op |-> "store_event", id |-> pump.item.id, ok |-> r.ok ]

(* UnlockDatabase::ui, the Unlock button: with the right password the      *)
(* database is unlocked, the status becomes Initalizing and the page Inbox *)
UnlockDatabase ==
    \E ok \in BOOLEAN :
        /\ Phase("render")
        /\ page = "Unlock"
        /\ StoreUnchanged
        /\ UNCHANGED <<account_manager, keystore, pubkeys>>
        /\ UNCHANGED ingest
        /\ UNCHANGED <<table_entries, loaded, transport, pump>>
        /\ unlocked' = (unlocked \/ ok)
        /\ status' = IF ok THEN "Initalizing" ELSE status
        /\ page' = IF ok THEN "Inbox" ELSE page
        /\ last' = [ op |-> "unlock_database", ok |-> ok ]

(* onboarding_setup_database and onboarding_unlock_database, the button:   *)
(* with a password that unlocks, the inputs are cleared                    *)
OnboardingUnlock ==
    \E ok \in BOOLEAN :
        /\ Phase("render")
        /\ page = "Onboarding"
        /\ ~ unlocked
        /\ StoreUnchanged
        /\ UNCHANGED <<account_manager, keystore, pubkeys>>
        /\ UNCHANGED ingest
        /\ UNCHANGED <<status, page, table_entries, loaded, transport, pump>>
        /\ unlocked' = ok
        /\ last' = [ op |-> "onboarding_unlock", ok |-> ok ]

(* the last step of the onboarding: the key is saved and, when that        *)
(* worked, finish_onboarding sets the page to Inbox                        *)
FinishOnboarding ==
    \E k \in AccountKeys :
        \E added \in add_pubkey(pubkeys, public_key(k)) :
            LET r == save_keys(account_manager, keystore, pubkeys, k, added)
            IN  /\ Phase("render")
                /\ page = "Onboarding"
                /\ unlocked
                /\ account_manager' = r.am
                /\ keystore' = r.ks
                /\ pubkeys' = r.rows
                /\ page' = IF r.ok THEN "Inbox" ELSE page
                /\ StoreUnchanged
                /\ UNCHANGED ingest
                /\ UNCHANGED <<status, unlocked, table_entries, loaded, transport, pump>>
                /\ last' = [ op |-> "finish_onboarding", ok |-> r.ok ]

(* render_app returns: the frame ends and the next one begins *)
EndFrame ==
    /\ Phase("render")
    /\ pump' = [ pump EXCEPT !.phase = "update", !.pulls = 0 ]
    /\ StoreUnchanged
    /\ UNCHANGED <<account_manager, keystore, pubkeys>>
    /\ UNCHANGED ingest
    /\ UNCHANGED <<status, page, unlocked, table_entries, loaded, transport>>
    /\ last' = [ op |-> "end_frame", ok |-> TRUE ]

(* update_app: the steps of one call *)
UpdateApp ==
    \/ UpdateStatus
    \/ TryRecv
    \/ Verify
    \/ Check
    \/ Store

(* The pump: the relays deliver mail records and gift wraps, the frames    *)
(* run, and the user unlocks, trashes and deletes in render_app.           *)
PumpIds == { 1, NumMsgs + 1 }

NextPump ==
    \/ Deliver(InboundItems(PumpIds))
    \/ UpdateStatus
    \/ TryRecv
    \/ Verify
    \/ Check
    \/ Store
    \/ UnlockDatabase
    \/ Phase("render") /\ status = "Ready" /\ MoveToTrash({1}, 1, {MaxTime})
    \/ Phase("render") /\ status = "Ready" /\ ApplyDeletion({1}, 1, {NULL})
    \/ EndFrame

SpecPump == Init /\ [][NextPump]_vars

(* The startup: the frames run and the user goes through the unlock page   *)
(* or the onboarding.  A frame that has begun runs to its end.             *)
NextStartup ==
    \/ Deliver(Verified({1}))
    \/ UpdateApp
    \/ UnlockDatabase
    \/ OnboardingUnlock
    \/ FinishOnboarding
    \/ EndFrame

SpecStartup == InitStartup /\ [][NextStartup]_vars /\ WF_vars(UpdateApp) /\ WF_vars(EndFrame)

(* --------------------------- image loader ------------------------------ *)
ImageLoader == [ images |-> images, pending |-> pending, failed |-> failed ]

(* ImageLoader::request: nothing for a key that is loaded, pending or      *)
(* failed; else the key becomes pending and a thread is spawned that       *)
(* fetches the url                                                         *)
request(il, threads, key, url) ==
    IF key \in DOMAIN il.images \/ key \in il.pending \/ key \in il.failed
    THEN [ il |-> il, threads |-> threads ]
    ELSE [ il |-> [ il EXCEPT !.pending = @ \cup {key} ],
           threads |-> Append(threads, [ key |-> key, url |-> url ]) ]

(* ImageLoader::invalidate *)
invalidate(il, key) ==
    [ images  |-> Restrict(il.images, DOMAIN il.images \ {key}),
      pending |-> il.pending \ {key},
      failed  |-> il.failed \ {key} ]

(* fetch_image: the image of the url, or None *)
fetch_image(url) == { url, NULL }

(* the body of the loop of process_queue, for one message *)
install(il, message) ==
    IF message.image # NULL
    THEN [ il EXCEPT !.pending = @ \ {message.key},
                     !.images = InsertOrReplace(@, message.key, message.image) ]
    ELSE [ il EXCEPT !.pending = @ \ {message.key},
                     !.failed = @ \cup {message.key} ]

(* ImageLoader::process_queue: every message of the channel, in order *)
RECURSIVE process_queue(_, _)
process_queue(il, ch) ==
    IF ch = <<>> THEN il ELSE process_queue(install(il, Head(ch)), Tail(ch))

(* ensure_contact_images_loaded: request for every contact from key k on   *)
(* that has a picture url                                                  *)
RECURSIVE ensure_contact_images_loaded(_, _, _, _)
ensure_contact_images_loaded(il, threads, pic, k) ==
    IF k > NumContacts THEN [ il |-> il, threads |-> threads ]
    ELSE IF pic[k] = NULL THEN ensure_contact_images_loaded(il, threads, pic, k + 1)
    ELSE LET r == request(il, threads, k, pic[k])
         IN  ensure_contact_images_loaded(r.il, r.threads, pic, k + 1)

CommitLoader(il) ==
    /\ images' = il.images
    /\ pending' = il.pending
    /\ failed' = il.failed
    /\ UNCHANGED <<events, deleted_events, trash_events, gift_wrap_map>>
    /\ UNCHANGED profiles
    /\ UNCHANGED <<account_manager, keystore, pubkeys>>
    /\ UNCHANGED ingest
    /\ UNCHANGED cascade
    /\ UNCHANGED shell

(* upsert_metadata: the contact's metadata is replaced, and the key is     *)
(* invalidated when the picture url changed                                *)
UpsertMetadata ==
    \E k \in ContactKeys, url \in Urls \cup {NULL} :
        /\ picture' = [ picture EXCEPT ![k] = url ]
        /\ CommitLoader(IF picture[k] # url THEN invalidate(ImageLoader, k)
                                            ELSE ImageLoader)
        /\ UNCHANGED <<channel, fetches>>
        /\ last' = [ op |-> "upsert_metadata", key |-> k, url |-> url,
                     invalidated |-> picture[k] # url, ok |-> TRUE ]

EnsureContactImagesLoaded ==
    LET r == ensure_contact_images_loaded(ImageLoader, fetches, picture, 1)
    IN  /\ Len(r.threads) + Len(channel) <= MaxFetches
        /\ CommitLoader(r.il)
        /\ fetches' = r.threads
        /\ UNCHANGED <<channel, picture>>
        /\ last' = [ op |-> "ensure_contact_images_loaded",
                     spawned |-> Len(r.threads) - Len(fetches), ok |-> TRUE ]

(* a fetch thread ends: it sends what fetch_image returned.  The url is    *)
(* not part of ImageMessage; it is kept to name the fetch.                 *)
WorkerComplete ==
    \E i \in 1..Len(fetches) :
        \E image \in fetch_image(fetches[i].url) :
            /\ channel' = Append(channel, [ key |-> fetches[i].key, image |-> image,
                                            url |-> fetches[i].url ])
            /\ fetches' = SubSeq(fetches, 1, i - 1) \o SubSeq(fetches, i + 1, Len(fetches))
            /\ CommitLoader(ImageLoader)
            /\ UNCHANGED picture
            /\ last' = [ op |-> "worker", key |-> fetches[i].key, ok |-> image # NULL ]

ProcessQueue ==
    /\ CommitLoader(process_queue(ImageLoader, channel))
    /\ channel' = <<>>
    /\ UNCHANGED <<fetches, picture>>
    /\ last' = [ op |-> "process_queue", updated |-> channel # <<>>, ok |-> TRUE ]

NextImages ==
    \/ UpsertMetadata
    \/ EnsureContactImagesLoaded
    \/ WorkerComplete
    \/ ProcessQueue

SpecImages == Init /\ [][NextImages]_vars

(* ----------------------- relay message decoding ------------------------ *)
(* The texts a relay sends.  A text is the empty string, a text that is no *)
(* JSON, a JSON value that is no array, or a JSON array of at most         *)
(* MaxElems elements; an element is a string, a boolean, an object that    *)
(* deserializes as a nostr Event, or another object.                       *)
JsonStrings == { "EVENT", "NOTICE", "EOSE", "CLOSED", "OK", "AUTH" }

JsonElems ==
    { [ t |-> "string", v |-> x ] : x \in JsonStrings }
    \cup { [ t |-> "bool", v |-> "true" ],
           [ t |-> "object", v |-> "event" ], [ t |-> "object", v |-> "other" ] }

JsonArrays == UNION { [ 1..n -> JsonElems ] : n \in 0..MaxElems }

RelayTexts ==
    { [ text |-> "empty", array |-> <<>> ], [ text |-> "not json", array |-> <<>> ],
      [ text |-> "object", array |-> <<>> ], [ text |-> "string", array |-> <<>> ] }
    \cup { [ text |-> "array", array |-> a ] : a \in JsonArrays }

DecodeFailed == [ res |-> "Err", error |-> "DecodeFailed" ]

as_str(e) == e.t = "string"

as_bool(e) == e.t = "bool"

(* serde_json::from_value::<Event> *)
event_from_value(e) == e.t = "object" /\ e.v = "event"

(* RelayMessage::from_json; res is "Ok", "Err" or "Panic" *)
from_json(msg) ==
    IF msg.text = "empty" THEN [ res |-> "Err", error |-> "Empty" ]
    ELSE IF msg.text = "not json" THEN DecodeFailed
    ELSE IF msg.text # "array" THEN DecodeFailed
    ELSE LET array == msg.array
         IN  IF Len(array) = 0 THEN DecodeFailed
             ELSE IF ~ as_str(array[1]) THEN DecodeFailed
             ELSE IF array[1].v = "NOTICE"
                  THEN IF Len(array) # 2 THEN DecodeFailed
                       ELSE IF ~ as_str(array[2]) THEN DecodeFailed
                       ELSE [ res |-> "Ok", variant |-> "Notice",
                              fields |-> <<array[2].v>> ]
             ELSE IF array[1].v = "EVENT"
                  THEN IF Len(array) # 3 THEN DecodeFailed
                       ELSE IF ~ as_str(array[2]) THEN DecodeFailed
                       ELSE IF ~ event_from_value(array[3]) THEN DecodeFailed
                       ELSE [ res |-> "Ok", variant |-> "Event",
                              fields |-> <<array[2].v, array[3].v>> ]
             ELSE IF array[1].v = "EOSE"
                  THEN IF Len(array) # 2 THEN DecodeFailed
                       ELSE IF ~ as_str(array[2]) THEN DecodeFailed
                       ELSE [ res |-> "Ok", variant |-> "Eose",
                              fields |-> <<array[2].v>> ]
             ELSE IF array[1].v = "OK"
                  THEN IF Len(array) # 4 THEN DecodeFailed
                       ELSE IF ~ as_str(array[2]) THEN DecodeFailed
                       ELSE IF ~ as_bool(array[3]) THEN DecodeFailed
                       ELSE IF ~ as_str(array[4]) THEN DecodeFailed
                       ELSE [ res |-> "Ok", variant |-> "OK",
                              fields |-> <<array[2].v, array[3].v, "ok">> ]
             ELSE DecodeFailed

(* the first text of a connection is decoded, as update_app does with what *)
(* try_recv returned                                                       *)
Decode ==
    \E msg \in RelayTexts :
        /\ last.op = "init"
        /\ UNCHANGED <<events, deleted_events, trash_events, gift_wrap_map>>
        /\ UNCHANGED profiles
        /\ UNCHANGED accounts
        /\ UNCHANGED loader
        /\ UNCHANGED shell
        /\ UNCHANGED ingest
        /\ UNCHANGED cascade
        /\ last' = [ op |-> "from_json", msg |-> msg, ret |-> from_json(msg), ok |-> TRUE ]

NextDecode == Decode

SpecDecode == Init /\ [][NextDecode]_vars

(* ------------------------------ claims --------------------------------- *)
(* C1: deletion permanence. Once an id has a DeletionMarker, no record     *)
(* with that id is in the events store, whatever is inserted, trashed,     *)
(* restored, deleted or purged afterwards.                                 *)
C1_DeletionPermanence ==
    \A x \in DOMAIN deleted_events : x \notin DOMAIN events

(* C2: authorization scoping. apply_deletion(ids, author_scope = A) never  *)
(* removes a record stored under another author B, and never changes the   *)
(* DeletionMarker of its id, even when ids names it.                       *)
MarkerOf(del, x) == IF x \in DOMAIN del THEN {del[x]} ELSE {}

C2_AuthorizationScoping ==
    [][ (last'.op = "apply_deletion" /\ last'.author # NULL) =>
          \A x \in DOMAIN events :
              events[x].pubkey # last'.author =>
                  /\ x \in DOMAIN events'
                  /\ events'[x] = events[x]
                  /\ MarkerOf(deleted_events', x) = MarkerOf(deleted_events, x) ]_vars

(* a deletion scoped to A named a record stored under B, which is still there *)
C2_Witness ==
    /\ last.op = "apply_deletion"
    /\ last.author # NULL
    /\ \E x \in last.ids \cap DOMAIN events : events[x].pubkey # last.author

(* C3: idempotence. In the state an insert leaves, inserting the same      *)
(* record again changes no table; the second call succeeds whenever the    *)
(* first did (a duplicate is not an error).                                *)
SecondInsert ==
    IF last.op = "insert"
    THEN store_event_plain(Db, compute_id(RawEventData(last.id)), RawEventData(last.id))
    ELSE IF ~ unwrap_gift_wrap(last.id).ok
    THEN [ db |-> Db, ok |-> FALSE ]
    ELSE store_event_unwrapped(Db, last.id, unwrap_gift_wrap(last.id).gift)

C3_Idempotence ==
    last.op \in {"insert", "insert_envelope"} =>
        /\ SecondInsert.db = Db
        /\ last.ok => SecondInsert.ok

(* a record was inserted and is stored *)
C3_Witness ==
    \/ last.op = "insert" /\ last.id \in DOMAIN events
    \/ last.op = "insert_envelope" /\ last.ok /\ last.id \in DOMAIN gift_wrap_map

(* C4: unwrap rejection. Ingesting an envelope whose seal signer differs   *)
(* from the rumor's author changes no table (no events row, no mapping, no *)
(* marker) and returns an error.                                           *)
SealSignerMismatch(w) ==
    /\ unwrap_gift_wrap(w).ok
    /\ unwrap_gift_wrap(w).gift.sender # unwrap_gift_wrap(w).gift.rumor.raw.pubkey

C4_UnwrapRejection ==
    [][ (last'.op = "insert_envelope" /\ SealSignerMismatch(last'.id)) =>
          /\ UNCHANGED <<events, deleted_events, trash_events, gift_wrap_map>>
          /\ ~ last'.ok ]_vars

(* such an envelope was ingested, on a store that holds other records *)
C4_Witness ==
    /\ last.op = "insert_envelope"
    /\ SealSignerMismatch(last.id)
    /\ ~ last.ok
    /\ DOMAIN events # {}

(* C5: envelope cascade. Whenever an inner id has a DeletionMarker, every  *)
(* wrap_id that gift_wrap_map maps to it has a DeletionMarker too.         *)
C5_EnvelopeCascade ==
    \A w \in DOMAIN gift_wrap_map :
        gift_wrap_map[w] \in DOMAIN deleted_events => w \in DOMAIN deleted_events

(* C6: trash retention. A purge sweep at `now` keeps every TrashEntry with *)
(* purge_after > now (the entry, the stored bytes, its place in the trash  *)
(* listing); every entry with purge_after <= now is gone from the trash    *)
(* listing, its id has a DeletionMarker and its bytes are erased.          *)
DbNext == [ events |-> events', deleted_events |-> deleted_events',
            trash_events |-> trash_events', gift_wrap_map |-> gift_wrap_map' ]

RowOf(ev, x) == IF x \in DOMAIN ev THEN {ev[x]} ELSE {}

C6_TrashRetention ==
    [][ last'.op = "purge_expired" =>
          \A id \in DOMAIN trash_events :
              IF trash_events[id] > last'.now
              THEN /\ id \in DOMAIN trash_events'
                   /\ trash_events'[id] = trash_events[id]
                   /\ RowOf(events', id) = RowOf(events, id)
                   /\ (id \in get_trash_messages(DbNext)) = (id \in get_trash_messages(Db))
              ELSE /\ id \notin DOMAIN trash_events'
                   /\ id \notin get_trash_messages(DbNext)
                   /\ id \in DOMAIN deleted_events'
                   /\ id \notin DOMAIN events' ]_vars

(* a sweep purged one entry and kept another, still listed with its bytes *)
C6_Witness ==
    /\ last.op = "purge_expired"
    /\ \E x \in last.ids : x \in DOMAIN deleted_events /\ x \notin DOMAIN events
    /\ \E y \in get_trash_messages(Db) : trash_events[y] > last.now

(* C7: restore reversibility. For a record listed as a root, trashing it   *)
(* and then restoring it gives a state where it is listed as a root again, *)
(* with the stored content it had, and has no TrashEntry.                  *)
C7_RestoreReversibility ==
    \A r \in get_top_level_messages(Db), t \in Times :
        LET trashed  == record_trash(Db, {r}, t)
            restored == restore_from_trash(trashed, r)
        IN  /\ is_trashed(trashed, r)
            /\ r \in get_top_level_messages(restored)
            /\ restored.events[r] = events[r]
            /\ ~ is_trashed(restored, r)

(* a trashed record was restored and is listed as a root *)
C7_Witness ==
    /\ last.op = "restore"
    /\ last.was_trashed
    /\ last.id \in get_top_level_messages(Db)

(* C10: the example scenario. On an empty store, ingesting an envelope     *)
(* whose rumor R1 carries a subject tag (and states no id) makes R1's id   *)
(* the one root of the top-level listing; a deletion request by R1's       *)
(* author naming R1's id then leaves the listing and thread(R1.id) empty.  *)
StoreEmpty ==
    /\ events = Empty /\ deleted_events = Empty
    /\ trash_events = Empty /\ gift_wrap_map = Empty

ScenarioEnvelopes ==
    { w \in WrapIds : /\ unwrap_gift_wrap(w).ok
                      /\ UnwrappedGift(w).rumor.id = NULL
                      /\ ~ SealSignerMismatch(w)
                      /\ UnwrappedGift(w).rumor.raw.subject }

R1(w) == UnwrappedGift(w).rumor.raw

AfterE1(w) ==
    /\ events = (compute_id(R1(w)) :> R1(w))
    /\ gift_wrap_map = (w :> compute_id(R1(w)))
    /\ deleted_events = Empty
    /\ trash_events = Empty

C10_ExampleScenario ==
    [][ \A w \in ScenarioEnvelopes :
          /\ (StoreEmpty /\ last'.op = "insert_envelope" /\ last'.id = w) =>
                 /\ AfterE1(w)'
                 /\ get_top_level_messages(DbNext) = {compute_id(R1(w))}
          /\ ( /\ AfterE1(w)
               /\ last'.op = "apply_deletion"
               /\ last'.author = R1(w).pubkey
               /\ compute_id(R1(w)) \in last'.ids ) =>
                 /\ get_top_level_messages(DbNext) = {}
                 /\ \A b \in BOOLEAN :
                        get_email_thread_inner(DbNext, compute_id(R1(w)), b) = { <<>> } ]_vars

(* the state the scenario ends in: R1 deleted by its author, its envelope  *)
(* marked, nothing stored                                                  *)
C10_Witness ==
    \E w \in ScenarioEnvelopes :
        /\ last.op = "apply_deletion"
        /\ last.author = R1(w).pubkey
        /\ compute_id(R1(w)) \in last.ids
        /\ events = Empty
        /\ gift_wrap_map = (w :> compute_id(R1(w)))
        /\ DOMAIN deleted_events = {w, compute_id(R1(w))}

(* C8: the thread example, as stated: with A, B (reply to A), C (reply to  *)
(* B) and D (reply to A) stored, thread(C) is exactly {A, B, C} and        *)
(* thread(D) is exactly {A, D}.                                            *)
Example == [ A |-> 1, B |-> 2, C |-> 4, D |-> 3 ]

ExampleStored ==
    /\ DOMAIN events = {Example.A, Example.B, Example.C, Example.D}
    /\ trash_events = Empty

Range(seq) == { seq[i] : i \in 1..Len(seq) }

AscendingCreatedAt(seq) ==
    \A i, j \in 1..Len(seq) :
        i < j => events[seq[i]].created_at <= events[seq[j]].created_at

C8_ThreadExample ==
    (ExampleStored /\ last.op = "thread") =>
        /\ last.id = Example.C => Range(last.rows) = {Example.A, Example.B, Example.C}
        /\ last.id = Example.D => Range(last.rows) = {Example.A, Example.D}

(* C8 as amended: thread(C) and thread(D) both return the four records of  *)
(* the conversation, A, B, C and D, once each, in ascending created_at.    *)
C8_ThreadExampleAmended ==
    (ExampleStored /\ last.op = "thread" /\ last.id \in {Example.C, Example.D}) =>
        /\ Range(last.rows) = {Example.A, Example.B, Example.C, Example.D}
        /\ Len(last.rows) = Cardinality(Range(last.rows))
        /\ AscendingCreatedAt(last.rows)

(* thread(C) was read on the example's store, and D is among its rows *)
C8_Witness ==
    /\ ExampleStored
    /\ last.op = "thread"
    /\ last.id = Example.C
    /\ Example.D \in Range(last.rows)

(* C9: single-thread closure. thread(id, include_trashed = true) returns   *)
(* exactly the stored, non-deleted records in the least set that holds id  *)
(* and is closed under reply-references in both directions, each once; it  *)
(* is empty when id is absent or deleted.                                  *)
LiveRows == { e \in DOMAIN events : row_not_deleted(Db, e) }

Linked(x, y) == y \in events[x].etags \/ x \in events[y].etags

ClosedUnderReferences(S) ==
    \A x \in S, y \in LiveRows : Linked(x, y) => y \in S

Connected(id) ==
    IF id \notin LiveRows THEN {}
    ELSE { x \in LiveRows :
             \A S \in SUBSET LiveRows : (id \in S /\ ClosedUnderReferences(S)) => x \in S }

C9_SingleThreadClosure ==
    (last.op = "thread" /\ ~ last.exclude_trash) =>
        /\ Range(last.rows) = Connected(last.id)
        /\ Len(last.rows) = Cardinality(Connected(last.id))
        /\ last.id \notin LiveRows => last.rows = <<>>

(* a thread was read that holds a trashed record and a record more than    *)
(* one reference away from id                                              *)
C9_Witness ==
    /\ last.op = "thread"
    /\ ~ last.exclude_trash
    /\ \E x \in Range(last.rows) : is_trashed(Db, x)
    /\ \E y \in Range(last.rows) : y # last.id /\ ~ Linked(last.id, y)

(* C11: deletion is terminal. Every id that has a DeletionMarker has one   *)
(* after every operation (insert, move_to_trash, restore, apply_deletion,  *)
(* purge_expired): the set of marked ids only grows.                       *)
C11_DeletionTerminal ==
    [][ DOMAIN deleted_events \subseteq DOMAIN deleted_events' ]_vars

(* a marked id was named by a restore, a trashing or a plain insert, and   *)
(* still has its marker                                                    *)
C11_Witness ==
    \/ last.op = "restore" /\ last.id \in DOMAIN deleted_events
    \/ last.op = "move_to_trash" /\ last.ids \cap DOMAIN deleted_events # {}
    \/ last.op = "insert" /\ last.id \in DOMAIN deleted_events

(* C12: metadata upsert. Ingesting a Metadata record for author P replaces *)
(* the stored profile of P when no profile of P is stored or the record's  *)
(* created_at is strictly greater than the stored one; with an equal or    *)
(* older created_at the stored profile is left as it is.                   *)
StoredProfile(k) ==
    [ id |-> k, fields |-> MetadataEvent(k).content,
      created_at |-> MetadataEvent(k).created_at ]

C12_MetadataUpsert ==
    [][ (last'.op = "process_event" /\ ~ last'.skipped) =>
          LET P == MetadataEvent(last'.id).pubkey
          IN  IF \/ P \notin DOMAIN profile_metadata
                 \/ MetadataEvent(last'.id).created_at > profile_metadata[P].created_at
              THEN /\ P \in DOMAIN profile_metadata'
                   /\ profile_metadata'[P] = StoredProfile(last'.id)
              ELSE profile_metadata' = profile_metadata ]_vars

(* C13: thread ordering. The sequence thread(id, ...) returns is ascending *)
(* in created_at, and two members with the same created_at appear in       *)
(* ascending id order.                                                     *)
C13_ThreadOrdering ==
    last.op = "thread" =>
        \A i, j \in 1..Len(last.rows) :
            i < j =>
                \/ events[last.rows[i]].created_at < events[last.rows[j]].created_at
                \/ /\ events[last.rows[i]].created_at = events[last.rows[j]].created_at
                   /\ last.rows[i] < last.rows[j]

(* C14: root definition. top_level_listing has an entry for r exactly when *)
(* r is stored, not deleted, not trashed, carries a subject tag, and none  *)
(* of its reference tags points at a stored record that is itself neither  *)
(* deleted nor trashed (a subject-bearing reply whose only parent is       *)
(* trashed is a root).                                                     *)
LiveParent(p) ==
    /\ p \in DOMAIN events
    /\ row_not_deleted(Db, p)
    /\ row_not_trashed(Db, p)

SpecRoots ==
    { r \in DOMAIN events :
        /\ row_not_deleted(Db, r)
        /\ row_not_trashed(Db, r)
        /\ events[r].subject
        /\ ~ \E p \in events[r].etags : LiveParent(p) }

C14_RootDefinition ==
    last.op = "top_level_listing" => last.rows = SpecRoots

(* C15: account persistence round trip. After generate_new_keys_and_save   *)
(* or save_keys succeeded for key k, k is in loaded_keys, and load_keys    *)
(* run by a fresh AccountManager over the same database and keyring        *)
(* returns a list that contains k; that list is the fresh manager's        *)
(* loaded_keys.                                                            *)
C15_AccountRoundTrip ==
    /\ (last.op \in {"generate_new_keys_and_save", "save_keys"} /\ last.ok) =>
           /\ last.key \in SeqRange(account_manager.loaded_keys)
           /\ last.key \in SeqRange(load_keys(keystore, pubkeys))
    /\ last.op = "load_keys" => account_manager.loaded_keys = last.keys

(* a key was saved next to another account, and one was generated *)
C15_Witness ==
    /\ last.op \in {"generate_new_keys_and_save", "save_keys"}
    /\ last.ok
    /\ Cardinality(SeqRange(pubkeys)) >= 2
    /\ last.key \in SeqRange(load_keys(keystore, pubkeys))

C17_LifecycleExclusivity ==
    DOMAIN trash_events \cap DOMAIN deleted_events = {}

(* C18: content erasure. After every operation no row of events has a     *)
(* DeletionMarker that applies to it (a marker of its id whose author is   *)
(* null or the row's author), and every id that got a marker in the        *)
(* operation has no row in events.                                         *)
C18_ContentErasure ==
    [][ /\ \A x \in DOMAIN events' : row_not_deleted(DbNext, x)
        /\ \A x \in DOMAIN deleted_events' \ DOMAIN deleted_events :
               x \notin DOMAIN events' ]_vars

(* a deletion or a sweep recorded markers, one of an envelope among them,  *)
(* while other rows stay stored                                            *)
C18_Witness ==
    /\ last.op \in {"apply_deletion", "purge_expired"}
    /\ \E x \in last.ids : x \in DOMAIN deleted_events /\ x \notin DOMAIN events
    /\ DOMAIN gift_wrap_map \cap DOMAIN deleted_events # {}
    /\ DOMAIN events # {}

(* C19: atomic cascade. In the state a crash leaves in the middle of a     *)
(* deletion cascade or of a purge sweep, no inner record is erased (marked *)
(* and without a row) while an envelope mapped to it has no marker.        *)
C19_AtomicCascade ==
    last.op = "crash" =>
        \A w \in DOMAIN gift_wrap_map :
            ( /\ gift_wrap_map[w] \in DOMAIN deleted_events
              /\ gift_wrap_map[w] \notin DOMAIN events )
            => w \in DOMAIN deleted_events

(* C20: rumor identity. The id under which an unwrapped rumor is stored in *)
(* events, and the inner_id its GiftWrapMapping records, is the content    *)
(* address computed from the rumor's fields, never an id the decrypted     *)
(* rumor states.                                                           *)
C20_RumorIdentity ==
    /\ \A x \in DOMAIN events : x = compute_id(events[x])
    /\ \A w \in DOMAIN gift_wrap_map :
           gift_wrap_map[w] = compute_id(UnwrappedGift(w).rumor.raw)

(* C21: partial batches. A deletion by author A that names several        *)
(* targets deletes and marks every named target stored under A, also when  *)
(* other named targets are stored under another author or are not stored,  *)
(* and the call returns success.                                           *)
C21_PartialBatches ==
    [][ (last'.op = "apply_deletion" /\ last'.author # NULL) =>
          /\ last'.ok
          /\ \A x \in last'.ids :
                (x \in DOMAIN events /\ events[x].pubkey = last'.author) =>
                    /\ x \notin DOMAIN events'
                    /\ x \in DOMAIN deleted_events' ]_vars

(* a batch by A named a record of A, now deleted and marked, next to a     *)
(* record of another author, which is still stored                         *)
C21_Witness ==
    /\ last.op = "apply_deletion"
    /\ last.author # NULL
    /\ \E x \in last.ids : x \in DOMAIN deleted_events /\ x \notin DOMAIN events
    /\ \E y \in last.ids : y \in DOMAIN events /\ events[y].pubkey # last.author

(* C22: purge marker author. After purge_expired(now) every id that had a  *)
(* TrashEntry with purge_after <= now has a DeletionMarker whose author is *)
(* null, whatever marker it had before, and the list returned is the set   *)
(* of those ids.                                                           *)
C22_PurgeMarkerAuthor ==
    [][ last'.op = "purge_expired" =>
          /\ last'.ids = { id \in DOMAIN trash_events :
                              trash_events[id] <= last'.now }
          /\ \A id \in DOMAIN trash_events :
                trash_events[id] <= last'.now =>
                    /\ id \in DOMAIN deleted_events'
                    /\ deleted_events'[id] = NULL ]_vars

(* C23: deletion before delivery. apply_deletion naming an id that is not  *)
(* in the events store leaves that id as it was: no row, no new or changed *)
(* DeletionMarker, the same TrashEntry; a batch of absent ids changes      *)
(* nothing at all.  When the id has no marker, an insert of the record     *)
(* right after stores it and thread(id, include_trashed = true) shows it.  *)
C23_DeletionBeforeDelivery ==
    [][ last'.op = "apply_deletion" =>
          /\ (last'.ids \cap DOMAIN events = {}) => DbNext = Db
          /\ \A x \in last'.ids : x \notin DOMAIN events =>
                /\ x \notin DOMAIN events'
                /\ (x \in DOMAIN deleted_events') = (x \in DOMAIN deleted_events)
                /\ x \in DOMAIN deleted_events => deleted_events'[x] = deleted_events[x]
                /\ (x \in DOMAIN trash_events') = (x \in DOMAIN trash_events)
                /\ x \notin DOMAIN deleted_events =>
                      LET r == store_event_plain(DbNext, compute_id(RawEventData(x)),
                                                 RawEventData(x))
                      IN  /\ r.ok
                          /\ x \in DOMAIN r.db.events
                          /\ r.db.events[x] = RawEventData(x)
                          /\ x \in thread_members(r.db, x, FALSE) ]_vars

C23_Witness ==
    /\ last.op = "apply_deletion"
    /\ \E x \in last.ids : x \notin DOMAIN events /\ x \notin DOMAIN deleted_events
    /\ \E y \in last.ids : y \in DOMAIN deleted_events

(* C24: trashing hides without erasing. move_to_trash(ids, retention)      *)
(* leaves events, DeletionMarkers and GiftWrapMappings as they were;       *)
(* afterwards each trashed id is absent from top_level_listing and from    *)
(* every thread(.., include_trashed = false), and present in trash_listing *)
(* and in thread(id, include_trashed = true).                              *)
C24_TrashHidesWithoutErasing ==
    [][ last'.op = "move_to_trash" =>
          /\ events' = events
          /\ deleted_events' = deleted_events
          /\ gift_wrap_map' = gift_wrap_map
          /\ \A x \in last'.ids :
                /\ x \notin get_top_level_messages(DbNext)
                /\ \A s \in MsgIds : x \notin thread_members(DbNext, s, TRUE)
                /\ x \in get_trash_messages(DbNext)
                /\ x \in thread_members(DbNext, x, FALSE) ]_vars

VisibleRows == { e \in LiveRows : row_not_trashed(Db, e) }

ClosedUnderVisibleReferences(S) ==
    \A x \in S, y \in VisibleRows : Linked(x, y) => y \in S

ConnectedVisible(id) ==
    IF id \notin VisibleRows THEN {}
    ELSE { x \in VisibleRows :
             \A S \in SUBSET VisibleRows :
                 (id \in S /\ ClosedUnderVisibleReferences(S)) => x \in S }

C26_FilteredTraversal ==
    (last.op = "thread" /\ last.exclude_trash) =>
        /\ \A x \in Range(last.rows) :
              /\ x \in DOMAIN events
              /\ row_not_deleted(Db, x)
              /\ ~ is_trashed(Db, x)
        /\ is_trashed(Db, last.id) => last.rows = <<>>
        /\ Range(last.rows) \subseteq ConnectedVisible(last.id)

(* a filtered thread was read that leaves out a visible record that the    *)
(* unfiltered closure reaches through a trashed one                        *)
C26_Witness ==
    /\ last.op = "thread"
    /\ last.exclude_trash
    /\ last.rows # <<>>
    /\ \E y \in VisibleRows :
          /\ y \in Connected(last.id)
          /\ y \notin Range(last.rows)

(* C27: root summaries. When top_level_listing returns a list, it has one  *)
(* entry for every root; the entry's thread_count is the number of         *)
(* non-deleted, non-trashed records reachable from the root by following   *)
(* reply-references forward (the root included); its sender, subject,      *)
(* content and timestamp are those of a member with the greatest           *)
(* created_at; the entries are in descending order of that timestamp.      *)
(* As stated, a record counts when it is visible and a chain of stored     *)
(* records leads to it; as amended, every record of the chain is visible.  *)
RootSummaries(Members(_)) ==
    (last.op = "top_level_listing" /\ last.ok) =>
        /\ { last.entries[i].id : i \in DOMAIN last.entries } = last.rows
        /\ Len(last.entries) = Cardinality(last.rows)
        /\ \A i \in DOMAIN last.entries :
              LET e == last.entries[i]
                  T == Members(e.id)
              IN  /\ e.thread_count = Cardinality(T)
                  /\ \E m \in T :
                        /\ \A y \in T : events[y].created_at <= events[m].created_at
                        /\ e.pubkey = events[m].pubkey
                        /\ e.subject = subject_value(events[m])
                        /\ e.content = events[m].content
                        /\ e.created_at = events[m].created_at
        /\ \A i, j \in DOMAIN last.entries :
              i < j => last.entries[i].created_at >= last.entries[j].created_at

(* the visible records that a chain of stored records joins to r *)
ForwardStored(r) ==
    { x \in VisibleRows :
        \A S \in SUBSET DOMAIN events :
            ( /\ r \in S
              /\ \A a \in S, b \in DOMAIN events : a \in events[b].etags => b \in S )
            => x \in S }

(* the visible records that a chain of visible records joins to r *)
ClosedUnderReplies(S) ==
    \A x \in S, y \in VisibleRows : x \in events[y].etags => y \in S

ForwardVisible(r) ==
    { x \in VisibleRows :
        \A S \in SUBSET VisibleRows : (r \in S /\ ClosedUnderReplies(S)) => x \in S }

(* C27 as stated: thread_count is the number of non-deleted, non-trashed   *)
(* records reachable from the root by reply-references, followed forward   *)
(* through the stored records.                                             *)
C27_RootSummaries == RootSummaries(ForwardStored)

(* C27 as amended: thread_count is the number of records joined to the     *)
(* root by a forward chain of reply-references whose members are all       *)
(* non-deleted and non-trashed; the summary fields are those of a member   *)
(* of that set with the greatest created_at, and the roots are in          *)
(* descending order of that timestamp.                                     *)
C27_RootSummariesAmended == RootSummaries(ForwardVisible)

(* a list was returned with the summary of a root that has a visible       *)
(* record behind a trashed reply                                           *)
C27_Witness ==
    /\ last.op = "top_level_listing"
    /\ last.ok
    /\ \E i \in DOMAIN last.entries :
          ForwardStored(last.entries[i].id) # ForwardVisible(last.entries[i].id)

(* C28: listing totality. top_level_listing returns a list, not an error,  *)
(* in every reachable store state, also when the latest record of a thread *)
(* carries no subject tag.                                                 *)
C28_ListingTotality ==
    last.op = "top_level_listing" => last.ok

(* C29: ingestion resilience. Processing an inbound item, be it a text     *)
(* that does not parse, a record that fails verification or a verified     *)
(* record with a malformed content, never ends the ingestion loop: the     *)
(* process is running afterwards and takes the next item.                  *)
C29_IngestionResilience ==
    [][ last'.op = "process_event" => ~ panicked' ]_vars

(* C30: failed writes leave memory untouched. When a store write made for  *)
(* an inbound record fails, the event list and the profile cache in memory *)
(* are what they were before the record was processed, and the process     *)
(* is running afterwards.                                                  *)
C30_FailedWrites ==
    [][ (last'.op = "process_event" /\ last'.write_failed) =>
          /\ app_events' = app_events
          /\ app_profile_metadata' = app_profile_metadata
          /\ ~ panicked' ]_vars

(* C31: verification gate. An inbound item that does not parse or does not *)
(* verify changes no state at all, and a record that process_event puts    *)
(* in the store was verified: its row is filed under the id that its own   *)
(* fields give.                                                            *)
C31_VerificationGate ==
    [][ last'.op = "process_event" =>
          /\ (~ last'.item.parsed \/ ~ last'.item.verified) =>
                /\ UNCHANGED <<events, deleted_events, trash_events, gift_wrap_map>>
                /\ UNCHANGED profiles
                /\ UNCHANGED ingest
          /\ \A x \in DOMAIN events' \ DOMAIN events : events'[x] = EventOf(x) ]_vars

C33_BreadcrumbMapping ==
    [][ /\ \A w \in DOMAIN gift_wrap_map :
              w \in DOMAIN gift_wrap_map' => gift_wrap_map'[w] = gift_wrap_map[w]
        /\ DOMAIN events' \cap DOMAIN gift_wrap_map' = {}
        /\ last'.op = "insert_envelope" =>
              LET rumor == ensure_id(unwrap_gift_wrap(last'.id).gift.rumor)
              IN  /\ rumor.id \in DOMAIN events => events' = events
                  /\ ( /\ last'.ok
                       /\ ~ is_deleted(Db, rumor.id, rumor.raw.pubkey) ) =>
                        /\ rumor.id \in DOMAIN events'
                        /\ last'.id \in DOMAIN gift_wrap_map'
                        /\ gift_wrap_map'[last'.id] = rumor.id ]_vars

(* C36: account stores stay consistent on failure. When save_keys,         *)
(* generate_new_keys_and_save or delete_key returns an error, loaded_keys, *)
(* the pubkeys table and the keystore hold the same accounts as before the *)
(* call.                                                                   *)
C36_AccountStoresOnFailure ==
    [][ ( /\ last'.op \in {"save_keys", "generate_new_keys_and_save", "delete_key"}
          /\ ~ last'.ok ) =>
            /\ SeqRange(account_manager'.loaded_keys)
                   = SeqRange(account_manager.loaded_keys)
            /\ SeqRange(pubkeys') = SeqRange(pubkeys)
            /\ DOMAIN keystore' = DOMAIN keystore ]_vars

(* the relay messages the core consumes, well formed: the text and the     *)
(* variant it stands for                                                   *)
WellFormed(msg) ==
    LET a == msg.array
        str(i) == a[i].t = "string"
    IN  IF msg.text # "array" \/ Len(a) = 0 \/ a[1].t # "string" THEN "none"
        ELSE IF a[1].v = "EVENT" /\ Len(a) = 3 /\ str(2) /\ a[3] = [ t |-> "object", v |-> "event" ]
             THEN "Event"
        ELSE IF a[1].v = "NOTICE" /\ Len(a) = 2 /\ str(2) THEN "Notice"
        ELSE IF a[1].v = "EOSE" /\ Len(a) = 2 /\ str(2) THEN "Eose"
        ELSE IF a[1].v = "CLOSED" /\ Len(a) = 3 /\ str(2) /\ str(3) THEN "Closed"
        ELSE IF a[1].v = "OK" /\ Len(a) = 4 /\ str(2) /\ a[3].t = "bool" /\ str(4) THEN "OK"
        ELSE "none"

(* the number of elements a message of a type tag has *)
Arity(tag) ==
    IF tag \in {"NOTICE", "EOSE"} THEN 2
    ELSE IF tag \in {"EVENT", "CLOSED"} THEN 3
    ELSE IF tag = "OK" THEN 4 ELSE 0

(* C37: relay message decoding. from_json decodes every well-formed EVENT, *)
(* NOTICE, EOSE, CLOSED and OK message into the variant of that name, and  *)
(* returns an error, never a panic, for empty input, JSON that is no       *)
(* array, an empty array, an unknown type tag and a wrong number of        *)
(* elements.                                                               *)
C37_RelayMessageDecoding ==
    last.op = "from_json" =>
        LET msg == last.msg
            a   == msg.array
        IN  /\ last.ret.res # "Panic"
            /\ WellFormed(msg) # "none" =>
                   last.ret.res = "Ok" /\ last.ret.variant = WellFormed(msg)
            /\ ( \/ msg.text # "array"
                 \/ Len(a) = 0
                 \/ a[1].t # "string"
                 \/ Arity(a[1].v) = 0
                 \/ Len(a) # Arity(a[1].v) ) => last.ret.res = "Err"

(* the fetch threads of a key that run *)
InFlight(k) == { i \in 1..Len(fetches) : fetches[i].key = k }

(* C38: image loader bookkeeping. Under every interleaving of request,     *)
(* invalidate, worker completion and process_queue, each key is in at most *)
(* one of images, pending and failed, and at most one fetch of a key is in *)
(* flight.                                                                 *)
C38_ImageLoaderBookkeeping ==
    \A k \in ContactKeys :
        /\ ~ (k \in DOMAIN images /\ k \in pending)
        /\ ~ (k \in DOMAIN images /\ k \in failed)
        /\ ~ (k \in pending /\ k \in failed)
        /\ Cardinality(InFlight(k)) <= 1

(* the new request of a key was made: the key is pending, or a fetch of    *)
(* its present url runs or has sent its result                             *)
Requested(k) ==
    \/ k \in pending
    \/ \E i \in 1..Len(fetches) : fetches[i] = [ key |-> k, url |-> picture[k] ]
    \/ \E i \in 1..Len(channel) : channel[i].key = k /\ channel[i].url = picture[k]

(* C39: no stale avatar. After invalidate(key) and a new request(key,      *)
(* new_url), process_queue installs no result of a fetch of another url    *)
(* for the key, and once no fetch runs and the channel is empty the image  *)
(* of the key is the one of new_url.                                       *)
C39_NoStaleAvatar ==
    [][ last'.op = "process_queue" =>
          \A k \in ContactKeys :
              Requested(k) =>
                  /\ \A i \in 1..Len(channel) :
                         channel[i].key = k => channel[i].url = picture[k]
                  /\ (fetches' = <<>> /\ k \in DOMAIN images') =>
                         images'[k] = picture'[k] ]_vars

(* C34: single pump. A frame pulls at most one message from the transport, *)
(* and from the pull to the end of its processing the record in hand stays *)
(* the same, the tables change only by that record's write, and the record *)
(* the existence check let through is still not stored when its write      *)
(* begins.                                                                 *)
C34_SinglePump ==
    [][ /\ pump'.pulls <= 1
        /\ pump.phase \in {"verify", "check", "store"} =>
              /\ pump'.item = pump.item
              /\ Db' # Db =>
                    /\ pump.phase = "store"
                    /\ Db' = store_inbound(Db, pump.item.id, unlocked).db
        /\ (pump'.phase = "store" /\ unlocked') =>
              ~ has_event(Db', pump'.item.id) ]_vars

C34_Witness ==
    /\ pump.phase = "store"
    /\ pump.pulls = 1
    /\ transport # <<>>
    /\ events # Empty
    /\ unlocked

(* the statuses, in their order *)
StatusRank(st) ==
    IF st = "PreUnlock" THEN 0
    ELSE IF st = "WaitingForUnlock" THEN 1
    ELSE IF st = "Initalizing" THEN 2 ELSE 3

(* C35: startup progress. The status only moves forward through PreUnlock, *)
(* WaitingForUnlock, Initalizing, Ready; every successful unlock of the    *)
(* database, on the unlock page or in the onboarding, is eventually        *)
(* followed by the status Ready; and when the status is Ready the keys     *)
(* were loaded and the top-level listing was fetched.                      *)
C35_StartupProgress ==
    /\ [][ StatusRank(status') >= StatusRank(status) ]_vars
    /\ (unlocked ~> status = "Ready")
    /\ [](status = "Ready" => loaded.keys /\ loaded.listing)
====
